---- MODULE Spec2Model ----
(***************************************************************************)
(* Model of backend/index.js: the order-construction and payment-capture   *)
(* pipeline of the PayPal gateway sample (cart normalisation, order        *)
(* payload, gateway client, capture recorder, the two Express handlers     *)
(* and the error-handling middleware).                                     *)
(*                                                                         *)
(* JavaScript values are represented as follows.                           *)
(*   number     [k |-> "fin", m |-> n]   the value n/1000 (n in mills)     *)
(*              [k |-> "big", m |-> n]   the value n * 1e21 (n >= 1)       *)
(*              [k |-> "inf", m |-> 0]   Infinity                          *)
(*              [k |-> "nan", m |-> 0]   NaN                               *)
(*   string     a sequence of one-character strings where the code         *)
(*              formats, trims or parses it; a TLA+ string otherwise       *)
(*   optional   <<>> for undefined, <<v>> for the value v                  *)
(*   JSON object  a function from the keys present to their values         *)
(***************************************************************************)
EXTENDS Integers, Sequences, FiniteSets, TLC

VARIABLES config, pc, op, input, calls, replies, pending, res, persisted, log, ui

vars == <<config, pc, op, input, calls, replies, pending, res, persisted, log, ui>>

(* ------------------------------ bounds -------------------------------- *)

\* longest cart a client sends
MaxItems == 2
\* number of concurrently served requests
NProcs == 2
\* records the transaction log may hold before no further capture is started
MaxLog == 2

(* --------------------------- generic helpers --------------------------- *)

None == <<>>
Some(v) == <<v>>
IsSome(o) == Len(o) = 1

Fin(n) == [k |-> "fin", m |-> n]
Big(n) == [k |-> "big", m |-> n]
Inf == [k |-> "inf", m |-> 0]
NaN == [k |-> "nan", m |-> 0]

Digits == <<"0", "1", "2", "3", "4", "5", "6", "7", "8", "9">>

RECURSIVE IntToStr(_)
\* decimal digits of a natural number, as String(n) / toFixed print them
IntToStr(n) ==
  IF n < 10 THEN <<Digits[n + 1]>>
  ELSE IntToStr(n \div 10) \o <<Digits[(n % 10) + 1]>>

DigitVal(c) == CHOOSE d \in 0..9 : Digits[d + 1] = c

IsDigit(c) == \E d \in 0..9 : Digits[d + 1] = c

RECURSIVE StrToInt(_)
\* value of a non-empty digit string
StrToInt(s) ==
  IF Len(s) = 1 THEN DigitVal(s[1])
  ELSE 10 * StrToInt(SubSeq(s, 1, Len(s) - 1)) + DigitVal(s[Len(s)])

(* ----------------------- amounts (index.js:39) ------------------------- *)

\* Prices p (in mills) whose double product p * 100 falls just below the
\* half cent although p ends in 5 mills: 1.005 * 100 = 100.49999999999999.
\* (0.005 * 100 = 0.5 exactly, so 5 mills is not one of them.)
BinaryShortfall == {1005}

\* Math.round(x * 100) for x = m/1000: the nearest integer, ties upwards,
\* of the double product.
RoundCents(m) ==
  IF m \in BinaryShortfall THEN (m - 5) \div 10 ELSE (m + 5) \div 10

\* Number.prototype.toFixed(2) of the value c/100 (c an integer of cents),
\* or of n * 1e21: at 1e21 and above toFixed falls back to String(x).
ToFixed2(v) ==
  CASE v.k = "big" -> IntToStr(v.m) \o <<"e", "+", "2", "1">>
    [] v.k = "inf" -> <<"I", "n", "f", "i", "n", "i", "t", "y">>
    [] v.k = "nan" -> <<"N", "a", "N">>
    [] OTHER ->
         LET c == IF v.m < 0 THEN -v.m ELSE v.m
             sign == IF v.m < 0 THEN <<"-">> ELSE <<>>
         IN sign \o IntToStr(c \div 100) \o <<".">>
              \o <<Digits[((c \div 10) % 10) + 1], Digits[(c % 10) + 1]>>

\* amountToString: (Math.round(Number(value || 0) * 100) / 100).toFixed(2).
\* NaN and 0 are falsy and become 0; a finite value is rounded to cents.
\* The argument of ToFixed2 is in cents for "fin".
amountToString(value) ==
  CASE value.k = "nan" -> ToFixed2(Fin(0))
    [] value.k = "fin" -> ToFixed2(Fin(RoundCents(value.m)))
    [] OTHER -> ToFixed2(value)

\* Number(s) for a string that amountToString or String(n) produced:
\* "d+.dd" gives the amount in mills, "d+" an integer, "de+21" d * 1e21,
\* "Infinity" Infinity, any other text NaN.
ParseNumber(s) ==
  LET neg == Len(s) > 0 /\ s[1] = "-"
      t == IF neg THEN Tail(s) ELSE s
      dot == {i \in 1..Len(t) : t[i] = "."}
      e == {i \in 1..Len(t) : t[i] = "e"}
  IN CASE e # {} ->
            LET i == CHOOSE j \in e : TRUE
            IN Big(StrToInt(SubSeq(t, 1, i - 1)))
       [] t = <<"I", "n", "f", "i", "n", "i", "t", "y">> -> Inf
       [] Len(t) = 0 \/ \E i \in 1..Len(t) : ~(IsDigit(t[i]) \/ t[i] = ".") -> NaN
       [] dot = {} -> Fin((IF neg THEN -1000 ELSE 1000) * StrToInt(t))
       [] OTHER ->
            LET i == CHOOSE j \in dot : TRUE
                whole == StrToInt(SubSeq(t, 1, i - 1))
                frac == StrToInt(SubSeq(t, i + 1, Len(t)))
            IN Fin((IF neg THEN -1 ELSE 1) * (whole * 1000 + frac * 10))

\* a * b in double arithmetic, for b a positive integer quantity
NumTimes(a, b) ==
  CASE a.k = "fin" -> Fin(a.m * (b.m \div 1000))
    [] a.k = "big" -> Big(a.m * (b.m \div 1000))
    [] OTHER -> a

\* a + b in double arithmetic: a value of 1e21 and above absorbs an amount
\* of cents (the spacing of doubles there is 131072)
NumPlus(a, b) ==
  CASE a.k = "fin" /\ b.k = "fin" -> Fin(a.m + b.m)
    [] a.k = "big" /\ b.k = "big" -> Big(a.m + b.m)
    [] a.k = "big" -> a
    [] OTHER -> b

(* ------------------ normalizeItems (index.js:41-72) -------------------- *)

IsSpace(c) == c \in {" ", "\t"}

RECURSIVE TrimStart(_)
TrimStart(s) ==
  IF Len(s) > 0 /\ IsSpace(s[1]) THEN TrimStart(Tail(s)) ELSE s

RECURSIVE TrimEnd(_)
TrimEnd(s) ==
  IF Len(s) > 0 /\ IsSpace(s[Len(s)])
  THEN TrimEnd(SubSeq(s, 1, Len(s) - 1)) ELSE s

\* String.prototype.trim
Trim(s) == TrimEnd(TrimStart(s))

\* item?.name?.trim()
ItemName(item) == IF IsSome(item.name) THEN Some(Trim(item.name[1])) ELSE None

\* Number(item?.quantity ?? 1)
ItemQuantity(item) == IF IsSome(item.quantity) THEN item.quantity[1] ELSE Fin(1000)

\* Number(item?.price ?? 0)
ItemPrice(item) == IF IsSome(item.price) THEN item.price[1] ELSE Fin(0)

\* mutant of PriceInvalid: the price check accepts zero and negative prices
PriceInvalidNoSign(price) == price.k \in {"inf", "nan"}

\* !Number.isFinite(price) || price <= 0
PriceInvalid(price) ==
  \/ price.k \in {"inf", "nan"}
  \/ price.k = "fin" /\ price.m <= 0

\* !Number.isInteger(quantity) || quantity <= 0
QuantityInvalid(quantity) ==
  \/ quantity.k \in {"inf", "nan"}
  \/ quantity.k = "fin" /\ (quantity.m % 1000 # 0 \/ quantity.m <= 0)

NoError == [text |-> "", index |-> 0, name |-> <<>>]

Error(text) == [text |-> text, index |-> 0, name |-> <<>>]

\* the error the map callback throws for the item at 1-based position index
ItemError(item, index) ==
  LET name == ItemName(item)
  IN CASE ~IsSome(name) \/ name = Some(<<>>) ->
            [text |-> "Item #N is missing a name.", index |-> index, name |-> <<>>]
       [] PriceInvalid(ItemPrice(item)) ->
            [text |-> "Item has an invalid price.", index |-> 0, name |-> name[1]]
       [] QuantityInvalid(ItemQuantity(item)) ->
            [text |-> "Item has an invalid quantity.", index |-> 0, name |-> name[1]]
       [] OTHER -> NoError

\* the object the map callback returns for a valid item
NormalizeItem(item, index, currency) ==
  [reference_id |-> IF IsSome(item.id) THEN item.id[1]
                    ELSE <<"I", "T", "E", "M", "-">> \o IntToStr(index),
   name |-> ItemName(item)[1],
   quantity |-> IntToStr(ItemQuantity(item).m \div 1000),
   category |-> IF IsSome(item.category) THEN item.category[1] ELSE "DIGITAL_GOODS",
   unit_amount |-> [currency_code |-> currency,
                    value |-> amountToString(ItemPrice(item))]]

\* mutant of normalizeItems: drops the items the checks reject and keeps
\* the rest instead of throwing
normalizeItemsFilter(items, currency) ==
  IF items.k # "array" \/ Len(items.v) = 0
  THEN [ok |-> FALSE, error |-> Error("Missing cart items."), items |-> <<>>]
  ELSE LET good == SelectSeq(items.v, LAMBDA it : ItemError(it, 1) = NoError)
       IN [ok |-> TRUE, error |-> NoError,
           items |-> [i \in 1..Len(good) |-> NormalizeItem(good[i], i, currency)]]

\* normalizeItems(items = []): the normalized list, or the first error thrown.
\* items is [k |-> "undefined"], [k |-> "other", v |-> <<>>] (not an array)
\* or [k |-> "array", v |-> the list].
normalizeItems(items, currency) ==
  IF items.k # "array" \/ Len(items.v) = 0
  THEN [ok |-> FALSE, error |-> Error("Missing cart items."), items |-> <<>>]
  ELSE LET bad == {i \in 1..Len(items.v) : ItemError(items.v[i], i) # NoError}
       IN IF bad # {}
          THEN LET first == CHOOSE i \in bad : \A j \in bad : i <= j
               IN [ok |-> FALSE, error |-> ItemError(items.v[first], first),
                   items |-> <<>>]
          ELSE [ok |-> TRUE, error |-> NoError,
                items |-> [i \in 1..Len(items.v) |->
                             NormalizeItem(items.v[i], i, currency)]]

(* ---------------- calculateOrderTotal (index.js:74) -------------------- *)

RECURSIVE ReduceTotal(_, _)
\* items.reduce((sum, item) => sum + Number(value) * Number(quantity), 0),
\* from the left, on the items from position i on
ReduceTotal(items, sum) ==
  IF items = <<>> THEN sum
  ELSE ReduceTotal(Tail(items),
         NumPlus(sum, NumTimes(ParseNumber(Head(items).unit_amount.value),
                               ParseNumber(Head(items).quantity))))

calculateOrderTotal(items) == amountToString(ReduceTotal(items, Fin(0)))

(* --------------------- configuration (index.js:14-18) ------------------ *)

\* PAYPAL_CLIENT_ID / PAYPAL_CLIENT_SECRET present or not, PAYPAL_CURRENCY
Configs ==
  {[credentials |-> TRUE, currency |-> "USD"],
   [credentials |-> TRUE, currency |-> "EUR"],
   [credentials |-> FALSE, currency |-> "USD"]}

(* ------------------------- inputs of the clients ----------------------- *)

Item(id, name, price, quantity) ==
  [id |-> id, name |-> name, price |-> price, quantity |-> quantity,
   category |-> None]

\* items every check accepts
ValidItems ==
  {Item(None, Some(<<"A">>), Some(pr), q) :
     pr \in {Fin(4), Fin(5), Fin(1005), Fin(9999), Fin(39000), Big(1)},
     q \in {None, Some(Fin(2000))}}
  \cup {Item(None, Some(<<" ", "B", " ">>), Some(Fin(39000)), None),
        Item(Some(<<"s", "k", "u">>), Some(<<"A">>), Some(Fin(39000)), Some(Fin(1000))),
        [Item(None, Some(<<"A">>), Some(Fin(39000)), None)
           EXCEPT !.category = Some("PHYSICAL_GOODS")]}

\* items one of the checks rejects
InvalidItems ==
  {Item(None, nm, Some(Fin(39000)), None) : nm \in {None, Some(<<>>), Some(<<" ">>)}}
  \cup {Item(None, Some(<<"A">>), pr, None) :
          pr \in {None, Some(NaN), Some(Inf), Some(Fin(0)), Some(Fin(-1000))}}
  \cup {Item(None, Some(<<"A">>), Some(Fin(39000)), Some(q)) :
          q \in {NaN, Fin(0), Fin(-1000), Fin(1500)}}
  \cup {Item(None, Some(<<" ">>), Some(Fin(0)), Some(Fin(0))),
        Item(None, Some(<<"A">>), Some(Fin(-1000)), Some(Fin(1500)))}

RawItems == ValidItems \cup InvalidItems

RECURSIVE SeqsUpTo(_, _)
\* the sequences over S of length at most n
SeqsUpTo(S, n) ==
  IF n = 0 THEN {<<>>}
  ELSE LET shorter == SeqsUpTo(S, n - 1)
       IN shorter \cup {Append(s, x) : s \in {t \in shorter : Len(t) = n - 1}, x \in S}

\* req.body?.items of a create-order request
Carts ==
  {[k |-> "undefined", v |-> <<>>], [k |-> "other", v |-> <<>>]}
  \cup {[k |-> "array", v |-> s] : s \in SeqsUpTo(RawItems, MaxItems)}

\* the carts of the specification that interleaves every operation
SmallCarts ==
  {[k |-> "array", v |-> <<>>],
   [k |-> "array", v |-> <<Item(None, Some(<<"A">>), Some(Fin(39000)), None)>>],
   [k |-> "array", v |-> <<Item(None, Some(<<"A">>), Some(Fin(0)), None)>>]}

OrderIds == {"O1"}

Timestamps == {"T1", "T2"}

(* ---------------------- answers of the gateway ------------------------- *)

EmptyObj == [key \in {} |-> TRUE]

CompletedCapture ==
  [id |-> "O1",
   status |-> "COMPLETED",
   payer |-> [email_address |-> "ann@example.com",
              name |-> [given_name |-> "Ann", surname |-> "Lee"]],
   purchase_units |->
     <<[items |-> <<[name |-> "A", quantity |-> "1"]>>,
        payments |-> [captures |->
          <<[id |-> "C1", status |-> "COMPLETED",
             amount |-> [value |-> "39.00", currency_code |-> "USD"],
             create_time |-> "2024-01-01T00:00:00Z",
             update_time |-> "2024-01-01T00:00:01Z"]>>]]>>]

\* a declined capture omits fields a completed one has
DeclinedCapture ==
  [id |-> "O1",
   status |-> "COMPLETED",
   purchase_units |->
     <<[payments |-> [captures |-> <<[id |-> "C2", status |-> "DECLINED"]>>]]>>]

\* two captures in the first purchase unit, and a second purchase unit
TwoCaptures ==
  [id |-> "O1",
   purchase_units |->
     <<[payments |-> [captures |-> <<[id |-> "C3", status |-> "PENDING"],
                                     [id |-> "C4", status |-> "COMPLETED"]>>]],
       [payments |-> [captures |-> <<[id |-> "C5", status |-> "COMPLETED"]>>]]>>]

CapturePayloads == {CompletedCapture, DeclinedCapture, TwoCaptures}

\* what fetch resolves to: the HTTP status and the body, None for a body
\* that is empty or not JSON; [failed |-> TRUE] when the promise rejects
Reply(status, body) == [failed |-> FALSE, status |-> status, body |-> body]

NetworkFailure == [failed |-> TRUE, status |-> 0, body |-> None]

\* answers of the token endpoint
TokenReplies ==
  {Reply(200, Some([access_token |-> "A21AA", token_type |-> "Bearer"])),
   Reply(200, None),
   Reply(401, Some([error |-> "invalid_client"])),
   NetworkFailure}

OrderReplies ==
  {Reply(201, Some([id |-> "ORDER1", status |-> "CREATED"])),
   Reply(200, None),
   Reply(422, Some([name |-> "UNPROCESSABLE_ENTITY", message |-> "Amount mismatch."])),
   Reply(400, Some([name |-> "INVALID_REQUEST"])),
   Reply(503, None),
   NetworkFailure}

\* a 2xx answer carries a capture payload (a JSON object) or a body that
\* does not parse
CaptureReplies ==
  {Reply(201, Some(c)) : c \in CapturePayloads}
  \cup {Reply(200, None),
        Reply(422, Some([name |-> "ORDER_NOT_APPROVED", message |-> "Not approved."])),
        Reply(404, None),
        NetworkFailure}

\* the answers of the specification that interleaves every operation
SmallCaptureReplies ==
  {Reply(201, Some(CompletedCapture)), Reply(201, Some(DeclinedCapture)),
   Reply(404, None)}

(* ------------------- the store of the order handler -------------------- *)

\* mutant of orderPayload: the item total carries a hard-coded currency
orderPayloadFixedCurrency(items, total, currency) ==
  [intent |-> "CAPTURE",
   purchase_units |->
     <<[amount |-> [currency_code |-> currency,
                    value |-> total,
                    breakdown |-> [item_total |-> [currency_code |-> "USD",
                                                   value |-> total]]],
        items |-> items]>>,
   application_context |-> [shipping_preference |-> "NO_SHIPPING",
                            user_action |-> "PAY_NOW",
                            brand_name |-> "Payment Sample Store"]]

\* orderPayload of app.post("/api/orders") (index.js:169-191)
orderPayload(items, total, currency) ==
  [intent |-> "CAPTURE",
   purchase_units |->
     <<[amount |-> [currency_code |-> currency,
                    value |-> total,
                    breakdown |-> [item_total |-> [currency_code |-> currency,
                                                   value |-> total]]],
        items |-> items]>>,
   application_context |-> [shipping_preference |-> "NO_SHIPPING",
                            user_action |-> "PAY_NOW",
                            brand_name |-> "Payment Sample Store"]]

(* ---------------- capture recorder (index.js:123-154) ------------------ *)

\* obj?.key
Get(obj, key) ==
  IF IsSome(obj) /\ key \in DOMAIN obj[1] THEN Some(obj[1][key]) ELSE None

\* list?.[0]
First(list) ==
  IF IsSome(list) /\ Len(list[1]) >= 1 THEN Some(list[1][1]) ELSE None

\* mutant of extractCaptureSummary: reads the last capture of the last
\* purchase unit instead of the first of the first
extractCaptureSummaryLast(capturePayload) ==
  LET Last(list) == IF IsSome(list) /\ Len(list[1]) >= 1
                    THEN Some(list[1][Len(list[1])]) ELSE None
      purchaseUnit == Last(Get(Some(capturePayload), "purchase_units"))
      capture == Last(Get(Get(purchaseUnit, "payments"), "captures"))
  IN [orderId |-> Get(Some(capturePayload), "id"),
      captureId |-> Get(capture, "id"),
      status |-> Get(capture, "status"),
      payerEmail |-> Get(Get(Some(capturePayload), "payer"), "email_address"),
      payerGivenName |-> Get(Get(Get(Some(capturePayload), "payer"), "name"), "given_name"),
      payerSurname |-> Get(Get(Get(Some(capturePayload), "payer"), "name"), "surname"),
      amount |-> Get(Get(capture, "amount"), "value"),
      currency |-> Get(Get(capture, "amount"), "currency_code"),
      items |-> IF IsSome(Get(purchaseUnit, "items"))
                THEN Get(purchaseUnit, "items") ELSE Some(<<>>),
      createTime |-> Get(capture, "create_time"),
      updateTime |-> Get(capture, "update_time")]

\* extractCaptureSummary(capturePayload = {})
extractCaptureSummary(capturePayload) ==
  LET purchaseUnit == First(Get(Some(capturePayload), "purchase_units"))
      capture == First(Get(Get(purchaseUnit, "payments"), "captures"))
  IN [orderId |-> Get(Some(capturePayload), "id"),
      captureId |-> Get(capture, "id"),
      status |-> Get(capture, "status"),
      payerEmail |-> Get(Get(Some(capturePayload), "payer"), "email_address"),
      payerGivenName |-> Get(Get(Get(Some(capturePayload), "payer"), "name"), "given_name"),
      payerSurname |-> Get(Get(Get(Some(capturePayload), "payer"), "name"), "surname"),
      amount |-> Get(Get(capture, "amount"), "value"),
      currency |-> Get(Get(capture, "amount"), "currency_code"),
      items |-> IF IsSome(Get(purchaseUnit, "items"))
                THEN Get(purchaseUnit, "items") ELSE Some(<<>>),
      createTime |-> Get(capture, "create_time"),
      updateTime |-> Get(capture, "update_time")]

\* JSON.stringify of an object whose values are optionals: a key whose value
\* is undefined is left out of the text; the line is the object the text
\* parses back to
JsonStringify(obj) ==
  [key \in {k \in DOMAIN obj : IsSome(obj[k])} |-> obj[key][1]]

\* record of persistCapture: {...summary, loggedAt, raw: capturePayload}
captureRecord(capturePayload, now) ==
  LET summary == extractCaptureSummary(capturePayload)
  IN [key \in DOMAIN summary \cup {"loggedAt", "raw"} |->
        CASE key = "loggedAt" -> Some(now)
          [] key = "raw" -> Some(capturePayload)
          [] OTHER -> summary[key]]

(* ---------------- gateway client (index.js:76-121) --------------------- *)

TokenCall == [endpoint |-> "/v1/oauth2/token", orderId |-> None, body |-> None]

CreateCall(body) ==
  [endpoint |-> "/v2/checkout/orders", orderId |-> None, body |-> Some(body)]

CaptureCall(orderId) ==
  [endpoint |-> "/v2/checkout/orders/{id}/capture", orderId |-> Some(orderId),
   body |-> None]

\* an Error object: message, and the status and paypal properties if set
Thrown(message, status, paypal) ==
  [message |-> message, status |-> status, paypal |-> paypal]

\* response.json().catch(() => ({})): the body, {} when it does not parse
ParseBody(reply) == IF IsSome(reply.body) THEN reply.body[1] ELSE EmptyObj

\* response.ok
IsOk(reply) == reply.status >= 200 /\ reply.status <= 299

\* the error paypalRequest throws on a non-2xx answer (index.js:114-118)
GatewayError(reply) ==
  LET responseBody == ParseBody(reply)
  IN Thrown(IF "message" \in DOMAIN responseBody
            THEN Error(responseBody.message) ELSE Error("PayPal API error."),
            None, Some(responseBody))

(* --------------- error-handling middleware (index.js:216-223) ---------- *)

\* {message: err.message || "Unexpected server error.",
\*  ...(err.paypal ? {paypal: err.paypal} : {})}
ErrorBody(err) ==
  LET message == IF err.message.text = ""
                 THEN Error("Unexpected server error.") ELSE err.message
  IN IF IsSome(err.paypal)
     THEN [message |-> message, paypal |-> err.paypal[1]]
     ELSE [message |-> message]

\* res.status(err.status || 500).json({...})
errorMiddleware(err) ==
  [status |-> IF IsSome(err.status) THEN err.status[1] ELSE 500,
   body |-> ErrorBody(err)]

(* ------------------------------- state --------------------------------- *)
\* config     the process-wide configuration read at startup
\* pc[p]      where request p is: "idle" (not yet received), "token" (awaiting
\*            the token endpoint), "request" (awaiting the gateway call),
\*            "mkdir", "append" (awaiting the file system), "resume" (the
\*            append has settled, the handler has not resumed), "done"
\* op[p]      the operation request p asks for
\* input[p]   the request's input: the cart, or the order id
\* calls[p]   the gateway calls request p has issued, in order
\* replies[p] what those calls settled with, in order
\* pending[p] what the handler holds across its awaits
\* res[p]     the response sent, if any
\* persisted[p]  how persistCapture ended for request p
\* log        the lines of data/transactions.jsonl
\* ui[p]      the status the page of the client of request p shows
\*            (App.jsx: const [status, setStatus])

Procs == 1..NProcs

NoPending == [payload |-> None, record |-> None]

\* a status of the page: its type and its message; payerName is the name
\* the message greets, if any
Status(type, message, payerName) ==
  [type |-> type, message |-> message, payerName |-> payerName]

Init ==
  /\ config \in Configs
  /\ pc = [p \in Procs |-> "idle"]
  /\ op = [p \in Procs |-> "none"]
  /\ input = [p \in Procs |-> None]
  /\ calls = [p \in Procs |-> <<>>]
  /\ replies = [p \in Procs |-> <<>>]
  /\ pending = [p \in Procs |-> NoPending]
  /\ res = [p \in Procs |-> None]
  /\ persisted = [p \in Procs |-> "none"]
  /\ log = <<>>
  /\ ui = [p \in Procs |-> Status("idle", "", None)]

\* the handler's response ends the request
Finish(p, response) ==
  /\ pc' = [pc EXCEPT ![p] = "done"]
  /\ res' = [res EXCEPT ![p] = Some(response)]
  /\ pending' = [pending EXCEPT ![p] = NoPending]

\* generateAccessToken up to its fetch (index.js:77-90), reached with
\* `held` in the handler's hands: without credentials it throws, and the
\* handler's catch hands the error to the middleware
Authenticate(p, held) ==
  IF ~config.credentials
  THEN /\ Finish(p, errorMiddleware(
                      Thrown(Error("Missing PayPal credentials."), None, None)))
       /\ UNCHANGED calls
  ELSE /\ pc' = [pc EXCEPT ![p] = "token"]
       /\ calls' = [calls EXCEPT ![p] = Append(@, TokenCall)]
       /\ pending' = [pending EXCEPT ![p] = held]
       /\ UNCHANGED res

\* app.get("/api/config") (index.js:156-162)
GetConfig(p) ==
  /\ pc[p] = "idle"
  /\ op' = [op EXCEPT ![p] = "config"]
  /\ Finish(p, [status |-> 200,
                body |-> [clientId |-> IF config.credentials THEN "client-id" ELSE "",
                          currency |-> config.currency,
                          environment |-> "sandbox"]])
  /\ UNCHANGED <<ui, config, input, calls, replies, persisted, log>>

\* express.json() (index.js:37) rejects a body that is not JSON with an
\* error whose status is 400; the route handler never runs
MalformedBody(p) ==
  /\ pc[p] = "idle"
  /\ op' = [op EXCEPT ![p] = "create"]
  /\ Finish(p, errorMiddleware(
                 Thrown(Error("Unexpected token in JSON"), Some(400), None)))
  /\ UNCHANGED <<ui, config, input, calls, replies, persisted, log>>

\* app.post("/api/orders") up to its first await (index.js:164-195)
CreateOrder(p, items) ==
  /\ pc[p] = "idle"
  /\ op' = [op EXCEPT ![p] = "create"]
  /\ input' = [input EXCEPT ![p] = Some(items)]
  /\ LET normalized == normalizeItems(items, config.currency)
     IN IF ~normalized.ok
        THEN /\ Finish(p, errorMiddleware(Thrown(normalized.error, None, None)))
             /\ UNCHANGED calls
        ELSE LET total == calculateOrderTotal(normalized.items)
                 body == orderPayload(normalized.items, total, config.currency)
             IN Authenticate(p, [payload |-> Some(body), record |-> None])
  /\ UNCHANGED <<ui, config, replies, persisted, log>>

\* app.post("/api/orders/:orderId/capture") up to its first await
\* (index.js:203-208)
CaptureOrder(p, orderId) ==
  /\ pc[p] = "idle"
  /\ op' = [op EXCEPT ![p] = "capture"]
  /\ input' = [input EXCEPT ![p] = Some(orderId)]
  /\ Authenticate(p, NoPending)
  /\ UNCHANGED <<ui, config, replies, persisted, log>>

\* the token endpoint answers (index.js:92-110): a rejected fetch, a non-2xx
\* status or a body response.json() cannot parse throws, and the error
\* reaches the middleware; otherwise paypalRequest issues the call the
\* handler asked for
TokenReply(p, reply) ==
  /\ pc[p] = "token"
  /\ replies' = [replies EXCEPT ![p] = Append(@, reply)]
  /\ IF reply.failed
     THEN /\ Finish(p, errorMiddleware(
                         Thrown(Error("request to PayPal failed"), None, None)))
          /\ UNCHANGED calls
     ELSE IF ~IsOk(reply)
     THEN /\ Finish(p, errorMiddleware(
                         Thrown(Error("Failed to authenticate with PayPal"), None, None)))
          /\ UNCHANGED calls
     ELSE IF ~IsSome(reply.body)
     THEN /\ Finish(p, errorMiddleware(
                         Thrown(Error("invalid json response body"), None, None)))
          /\ UNCHANGED calls
     ELSE /\ pc' = [pc EXCEPT ![p] = "request"]
          /\ calls' = [calls EXCEPT ![p] =
                         Append(@, IF op[p] = "create"
                                   THEN CreateCall(pending[p].payload[1])
                                   ELSE CaptureCall(input[p][1]))]
          /\ UNCHANGED <<res, pending>>
  /\ UNCHANGED <<ui, config, op, input, persisted, log>>

\* the order-create call settles (index.js:112-120, 197-200)
OrderReply(p, reply) ==
  /\ pc[p] = "request" /\ op[p] = "create"
  /\ replies' = [replies EXCEPT ![p] = Append(@, reply)]
  /\ IF reply.failed
     THEN Finish(p, errorMiddleware(
                      Thrown(Error("request to PayPal failed"), None, None)))
     ELSE IF ~IsOk(reply)
     THEN Finish(p, errorMiddleware(GatewayError(reply)))
     ELSE LET order == ParseBody(reply)
          IN Finish(p, [status |-> 201,
                        body |-> JsonStringify([id |-> Get(Some(order), "id")])])
  /\ UNCHANGED <<ui, config, op, input, calls, persisted, log>>

\* mutant of CaptureReply: the handler calls persistCapture without await
\* and sends the capture at once, while the record is still being written
CaptureReplyNoAwait(p, reply) ==
  /\ pc[p] = "request" /\ op[p] = "capture"
  /\ replies' = [replies EXCEPT ![p] = Append(@, reply)]
  /\ IF reply.failed
     THEN Finish(p, errorMiddleware(
                      Thrown(Error("request to PayPal failed"), None, None)))
     ELSE IF ~IsOk(reply)
     THEN Finish(p, errorMiddleware(GatewayError(reply)))
     ELSE /\ pc' = [pc EXCEPT ![p] = "mkdir"]
          /\ pending' = [pending EXCEPT ![p] =
                           [payload |-> Some(ParseBody(reply)), record |-> None]]
          /\ res' = [res EXCEPT ![p] =
                       Some([status |-> 200, body |-> ParseBody(reply)])]
  /\ UNCHANGED <<ui, config, op, input, calls, persisted, log>>

\* the capture call settles (index.js:112-120, 209, 143): on success
\* persistCapture starts and asks for the data directory
CaptureReply(p, reply) ==
  /\ pc[p] = "request" /\ op[p] = "capture"
  /\ replies' = [replies EXCEPT ![p] = Append(@, reply)]
  /\ IF reply.failed
     THEN Finish(p, errorMiddleware(
                      Thrown(Error("request to PayPal failed"), None, None)))
     ELSE IF ~IsOk(reply)
     THEN Finish(p, errorMiddleware(GatewayError(reply)))
     ELSE /\ pc' = [pc EXCEPT ![p] = "mkdir"]
          /\ pending' = [pending EXCEPT ![p] =
                           [payload |-> Some(ParseBody(reply)), record |-> None]]
          /\ UNCHANGED res
  /\ UNCHANGED <<ui, config, op, input, calls, persisted, log>>

\* mutant of Mkdir: persistCapture without its try/catch, so a failure of
\* fs.mkdir reaches the handler's catch and the middleware
MkdirRethrows(p, ok, now) ==
  /\ pc[p] = "mkdir"
  /\ IF ok
     THEN /\ pc' = [pc EXCEPT ![p] = "append"]
          /\ pending' = [pending EXCEPT ![p].record =
                           Some(JsonStringify(captureRecord(pending[p].payload[1], now)))]
          /\ UNCHANGED <<res, persisted>>
     ELSE /\ Finish(p, errorMiddleware(
                         Thrown(Error("EACCES: permission denied, mkdir"), None, None)))
          /\ persisted' = [persisted EXCEPT ![p] = "mkdir_failed"]
  /\ UNCHANGED <<ui, config, op, input, calls, replies, log>>

\* fs.mkdir settles (index.js:143-153): on success the record is built and
\* handed to fs.appendFile; on failure the catch logs it and persistCapture
\* returns, so the handler sends the capture (index.js:210)
Mkdir(p, ok, now) ==
  /\ pc[p] = "mkdir"
  /\ IF ok
     THEN /\ pc' = [pc EXCEPT ![p] = "append"]
          /\ pending' = [pending EXCEPT ![p].record =
                           Some(JsonStringify(captureRecord(pending[p].payload[1], now)))]
          /\ UNCHANGED <<res, persisted>>
     ELSE /\ Finish(p, [status |-> 200, body |-> pending[p].payload[1]])
          /\ persisted' = [persisted EXCEPT ![p] = "mkdir_failed"]
  /\ UNCHANGED <<ui, config, op, input, calls, replies, log>>

\* mutant of AppendFile: fs.writeFile in place of fs.appendFile, which
\* replaces the content of the file
AppendFileOverwrite(p, ok) ==
  /\ pc[p] = "append"
  /\ pc' = [pc EXCEPT ![p] = "resume"]
  /\ log' = IF ok THEN <<pending[p].record[1]>> ELSE log
  /\ persisted' = [persisted EXCEPT ![p] = IF ok THEN "ok" ELSE "append_failed"]
  /\ UNCHANGED <<ui, config, op, input, calls, replies, pending, res>>

\* mutant of AppendFile: the new line is written at the head of the file
AppendFilePrepend(p, ok) ==
  /\ pc[p] = "append"
  /\ pc' = [pc EXCEPT ![p] = "resume"]
  /\ log' = IF ok THEN <<pending[p].record[1]>> \o log ELSE log
  /\ persisted' = [persisted EXCEPT ![p] = IF ok THEN "ok" ELSE "append_failed"]
  /\ UNCHANGED <<ui, config, op, input, calls, replies, pending, res>>

\* the file system carries out fs.appendFile (index.js:150): the line is
\* added at the end of the file in one write, or the call fails
AppendFile(p, ok) ==
  /\ pc[p] = "append"
  /\ pc' = [pc EXCEPT ![p] = "resume"]
  /\ log' = IF ok THEN Append(log, pending[p].record[1]) ELSE log
  /\ persisted' = [persisted EXCEPT ![p] = IF ok THEN "ok" ELSE "append_failed"]
  /\ UNCHANGED <<ui, config, op, input, calls, replies, pending, res>>

\* persistCapture returns (a failed append is caught and logged) and the
\* handler sends the capture payload (index.js:151-154, 210)
SendCapture(p) ==
  /\ pc[p] = "resume"
  /\ Finish(p, [status |-> 200, body |-> pending[p].payload[1]])
  /\ UNCHANGED <<ui, config, op, input, calls, replies, persisted, log>>

\* the next request served in the place of a finished one
NextRequest(p) ==
  /\ pc[p] = "done"
  /\ Len(log) < MaxLog
  /\ pc' = [pc EXCEPT ![p] = "idle"]
  /\ op' = [op EXCEPT ![p] = "none"]
  /\ input' = [input EXCEPT ![p] = None]
  /\ calls' = [calls EXCEPT ![p] = <<>>]
  /\ replies' = [replies EXCEPT ![p] = <<>>]
  /\ res' = [res EXCEPT ![p] = None]
  /\ persisted' = [persisted EXCEPT ![p] = "none"]
  /\ UNCHANGED <<ui, config, pending, log>>

(* ------------------ the page (App.jsx:193-212) -------------------------- *)

\* captureOrder up to its await (App.jsx:193-197): the page shows that the
\* payment is being captured and sends the capture request
UiCaptureOrder(p) ==
  /\ pc[p] = "idle" /\ ui[p].type = "idle"
  /\ ui' = [ui EXCEPT ![p] = Status("loading", "Capturing payment...", None)]
  /\ UNCHANGED <<config, pc, op, input, calls, replies, pending, res, persisted, log>>

\* the status captureOrder sets once the response is there (App.jsx:198-211):
\* an error with the message of the body when the response is not ok,
\* otherwise "Payment confirmed", with thanks to the payer when the payload
\* names one
captureOrderStatus(response) ==
  IF ~(response.status >= 200 /\ response.status <= 299)
  THEN Status("error",
              IF "message" \in DOMAIN response.body /\ response.body.message.text # ""
              THEN response.body.message.text ELSE "Unable to capture the order",
              None)
  ELSE Status("success", "Payment confirmed",
              Get(Get(Get(Some(response.body), "payer"), "name"), "given_name"))

\* captureOrder after its await (App.jsx:198-211)
UiCaptureSettled(p) ==
  /\ op[p] = "capture" /\ pc[p] = "done" /\ ui[p].type = "loading"
  /\ ui' = [ui EXCEPT ![p] = captureOrderStatus(res[p][1])]
  /\ UNCHANGED <<config, pc, op, input, calls, replies, pending, res, persisted, log>>

(* ---------------------------- specifications --------------------------- *)

\* every operation, interleaved, requests following one another
Next ==
  \/ \E p \in Procs : GetConfig(p)
  \/ \E p \in Procs : MalformedBody(p)
  \/ \E p \in Procs, items \in SmallCarts : CreateOrder(p, items)
  \/ \E p \in Procs, orderId \in OrderIds : CaptureOrder(p, orderId)
  \/ \E p \in Procs, reply \in TokenReplies : TokenReply(p, reply)
  \/ \E p \in Procs, reply \in OrderReplies : OrderReply(p, reply)
  \/ \E p \in Procs, reply \in SmallCaptureReplies : CaptureReply(p, reply)
  \/ \E p \in Procs, ok \in BOOLEAN : Mkdir(p, ok, "T1")
  \/ \E p \in Procs, ok \in BOOLEAN : AppendFile(p, ok)
  \/ \E p \in Procs : SendCapture(p)
  \/ \E p \in Procs : NextRequest(p)

Spec == Init /\ [][Next]_vars

\* one create-order request, over every cart
NextOrder ==
  \/ MalformedBody(1)
  \/ pc[1] = "idle" /\ \E items \in Carts : CreateOrder(1, items)
  \/ \E reply \in TokenReplies : TokenReply(1, reply)
  \/ \E reply \in OrderReplies : OrderReply(1, reply)

SpecOrder == Init /\ [][NextOrder]_vars

\* one capture-order request per process, run concurrently
NextCapture ==
  \/ \E p \in Procs, orderId \in OrderIds : CaptureOrder(p, orderId)
  \/ \E p \in Procs, reply \in TokenReplies : TokenReply(p, reply)
  \/ \E p \in Procs, reply \in CaptureReplies : CaptureReply(p, reply)
  \/ \E p \in Procs, ok \in BOOLEAN, now \in Timestamps : Mkdir(p, ok, now)
  \/ \E p \in Procs, ok \in BOOLEAN : AppendFile(p, ok)
  \/ \E p \in Procs : SendCapture(p)

SpecCapture == Init /\ [][NextCapture]_vars

\* the page capturing orders: each capture request is sent by captureOrder,
\* served by the capture handler, and its response shown by the page
NextClient ==
  \/ \E p \in Procs : UiCaptureOrder(p)
  \/ \E p \in Procs, orderId \in OrderIds :
       ui[p].type = "loading" /\ CaptureOrder(p, orderId)
  \/ \E p \in Procs, reply \in TokenReplies : TokenReply(p, reply)
  \/ \E p \in Procs, reply \in CaptureReplies : CaptureReply(p, reply)
  \/ \E p \in Procs, ok \in BOOLEAN : Mkdir(p, ok, "T1")
  \/ \E p \in Procs, ok \in BOOLEAN : AppendFile(p, ok)
  \/ \E p \in Procs : SendCapture(p)
  \/ \E p \in Procs : UiCaptureSettled(p)

SpecClient == Init /\ [][NextClient]_vars

(* ------------------------------- claims -------------------------------- *)

\* the create-order requests that have been received with a cart
CreateRequests == {p \in Procs : op[p] = "create" /\ IsSome(input[p])}

\* the order requests request p has sent to the gateway
OrderCalls(p) ==
  {calls[p][i].body[1] : i \in {j \in 1..Len(calls[p]) :
                                  calls[p][j].endpoint = "/v2/checkout/orders"}}

\* a name that is missing or consists of white space only
BlankName(item) ==
  ~IsSome(item.name) \/ \A i \in 1..Len(item.name[1]) : item.name[1][i] \in {" ", "\t"}

\* a price that is zero or negative (a missing price counts as 0)
NonPositivePrice(item) ==
  ~IsSome(item.price) \/ (item.price[1].k = "fin" /\ item.price[1].m <= 0)

\* a price that is NaN or infinite
NonFinitePrice(item) == IsSome(item.price) /\ item.price[1].k \in {"nan", "inf"}

\* a quantity that is given and is not a positive integer
BadQuantity(item) ==
  IsSome(item.quantity) /\
    LET q == item.quantity[1]
    IN ~(q.k = "big" \/ (q.k = "fin" /\ q.m > 0 /\ q.m % 1000 = 0))

\* the cart fails validation, in the words of the specification
FailsValidation(items) ==
  \/ items.k # "array"
  \/ items.v = <<>>
  \/ \E i \in 1..Len(items.v) :
       \/ BlankName(items.v[i])
       \/ NonPositivePrice(items.v[i])
       \/ NonFinitePrice(items.v[i])
       \/ BadQuantity(items.v[i])

\* the request has ended with an error response
Failed(p) == pc[p] = "done" /\ IsSome(res[p]) /\ res[p][1].status >= 400

\* C1: a create-order request whose cart fails validation fails, and issues
\* no call to the gateway: neither the token request nor the order request.
C1_NoGatewayCallOnInvalidCart ==
  \A p \in CreateRequests :
    FailsValidation(input[p][1]) => Failed(p) /\ calls[p] = <<>>

\* C1 witness: a cart whose second item has a zero price, after a valid
\* first item, has been rejected without a gateway call.
C1_Witness ==
  \E p \in CreateRequests :
    /\ input[p][1].k = "array" /\ Len(input[p][1].v) = 2
    /\ ~FailsValidation([k |-> "array", v |-> <<input[p][1].v[1]>>])
    /\ input[p][1].v[2].price = Some(Fin(0))
    /\ Failed(p) /\ calls[p] = <<>>

\* C2: in every order request sent to the gateway the purchase unit's
\* amount.value equals amount.breakdown.item_total.value, and both carry
\* the same currency code.
C2_AmountEqualsItemTotal ==
  \A p \in Procs : \A body \in OrderCalls(p) :
    LET amount == body.purchase_units[1].amount
    IN /\ amount.value = amount.breakdown.item_total.value
       /\ amount.currency_code = amount.breakdown.item_total.currency_code

\* C2 witness: an order request for a cart of two items, in a currency other
\* than the default, has been sent.
C2_Witness ==
  \E p \in Procs : \E body \in OrderCalls(p) :
    /\ Len(body.purchase_units[1].items) = 2
    /\ body.purchase_units[1].amount.currency_code = "EUR"
    /\ body.purchase_units[1].amount.value = <<"7", "8", ".", "0", "0">>

\* the text is digits, a dot and exactly two fraction digits
IsTwoDecimal(s) ==
  /\ Len(s) >= 4
  /\ s[Len(s) - 2] = "."
  /\ \A i \in (1..Len(s)) \ {Len(s) - 2} : s[i] \in {Digits[d] : d \in 1..10}

\* the amount of a two-decimal text, in cents
Cents(s) ==
  100 * StrToInt(SubSeq(s, 1, Len(s) - 3)) + StrToInt(SubSeq(s, Len(s) - 1, Len(s)))

RECURSIVE SumOfLines(_)
\* the sum of unit cents x quantity over the items of an order request
SumOfLines(items) ==
  IF items = <<>> THEN 0
  ELSE Cents(Head(items).unit_amount.value) * StrToInt(Head(items).quantity)
         + SumOfLines(Tail(items))

Normalized(p) ==
  (IF op[p] = "create" /\ IsSome(pending[p].payload)
   THEN {pending[p].payload[1].purchase_units[1].items} ELSE {})
  \cup {body.purchase_units[1].items : body \in OrderCalls(p)}

C5_AllOrNothing ==
  \A p \in CreateRequests :
    (input[p][1].k = "array"
       /\ \E i \in 1..Len(input[p][1].v) : NonPositivePrice(input[p][1].v[i]))
    => /\ Failed(p)
       /\ "message" \in DOMAIN res[p][1].body
       /\ Normalized(p) = {}
       /\ calls[p] = <<>>

\* C5 witness: a cart whose first item has a negative price and whose second
\* item is valid has been rejected.
C5_Witness ==
  \E p \in CreateRequests :
    /\ input[p][1].k = "array" /\ Len(input[p][1].v) = 2
    /\ input[p][1].v[1].price = Some(Fin(-1000))
    /\ ~FailsValidation([k |-> "array", v |-> <<input[p][1].v[2]>>])
    /\ Failed(p) /\ Normalized(p) = {}

\* C10: a create-order request rejected by cart validation is answered with
\* a 400-class status and a body carrying a message.
C10_ValidationIs4xx ==
  \A p \in CreateRequests :
    (FailsValidation(input[p][1]) /\ pc[p] = "done")
    => /\ res[p][1].status \in 400..499
       /\ "message" \in DOMAIN res[p][1].body

\* the capture requests whose gateway capture call has succeeded
Captured == 
  {p \in Procs : op[p] = "capture" /\ Len(replies[p]) = 2
                   /\ ~replies[p][2].failed /\ IsOk(replies[p][2])}

\* the capture payload request p got from the gateway
PayloadOf(p) == ParseBody(replies[p][2])

\* C6: once the gateway capture call has succeeded the request never ends in
\* an error: whether or not the directory creation or the append fails, the
\* response is 200 with the capture payload.
C6_PersistFailureSwallowed ==
  \A p \in Captured :
    /\ pc[p] \in {"mkdir", "append", "resume", "done"}
    /\ pc[p] = "done" => res[p] = Some([status |-> 200, body |-> PayloadOf(p)])

\* C6 witness: a capture whose append failed has been answered with 200.
C6_Witness ==
  \E p \in Captured :
    /\ persisted[p] = "append_failed"
    /\ pc[p] = "done" /\ res[p][1].status = 200
    /\ res[p][1].body = CompletedCapture

\* the value of a key of a log line, None when the line lacks the key
LineField(line, key) == IF key \in DOMAIN line THEN Some(line[key]) ELSE None

\* a field of the first capture of the first purchase unit of a payload
FirstCaptureField(payload, key) ==
  IF /\ "purchase_units" \in DOMAIN payload
     /\ Len(payload.purchase_units) >= 1
     /\ "payments" \in DOMAIN payload.purchase_units[1]
     /\ "captures" \in DOMAIN payload.purchase_units[1].payments
     /\ Len(payload.purchase_units[1].payments.captures) >= 1
     /\ key \in DOMAIN payload.purchase_units[1].payments.captures[1]
  THEN Some(payload.purchase_units[1].payments.captures[1][key])
  ELSE None

\* C7: with working storage a successful capture adds exactly one record to
\* the log, at its end, whose captureId and status are those of the first
\* capture of the first purchase unit and whose raw field is the payload; no
\* other step of the request touches the log; and the response is 200 with
\* the payload unchanged.
C7_CaptureRecorded ==
  [][\A p \in Procs :
       /\ (pc[p] = "append" /\ persisted'[p] = "ok") =>
            /\ Len(log') = Len(log) + 1
            /\ SubSeq(log', 1, Len(log)) = log
            /\ LET line == log'[Len(log')]
               IN /\ line.raw = PayloadOf(p)
                  /\ LineField(line, "captureId") = FirstCaptureField(PayloadOf(p), "id")
                  /\ LineField(line, "status") = FirstCaptureField(PayloadOf(p), "status")
       /\ (pc'[p] # pc[p] /\ pc[p] # "append") => log' = log
       /\ (pc[p] = "resume" /\ persisted[p] = "ok" /\ pc'[p] # pc[p]) =>
            res'[p] = Some([status |-> 200, body |-> PayloadOf(p)])
    ]_vars

\* C7 witness: a capture with two captures in its first purchase unit has
\* been recorded under its first capture and answered with the payload.
C7_Witness ==
  \E p \in Captured :
    /\ pc[p] = "done" /\ persisted[p] = "ok"
    /\ res[p] = Some([status |-> 200, body |-> TwoCaptures])
    /\ \E i \in 1..Len(log) :
         /\ log[i].raw = TwoCaptures
         /\ log[i].captureId = "C3" /\ log[i].status = "PENDING"

\* C8: the log holds exactly one complete record for each capture whose
\* append succeeded, whatever the interleaving: with N captures and no
\* failing append it ends with N records, none lost, doubled or merged.
C8_OneRecordPerCapture ==
  LET written == {p \in Procs : persisted[p] = "ok"}
  IN /\ Len(log) = Cardinality(written)
     /\ \A i \in 1..Len(log) : {"raw", "loggedAt", "items"} \subseteq DOMAIN log[i]
     /\ \A payload \in CapturePayloads \cup {EmptyObj} :
          Cardinality({i \in 1..Len(log) : log[i].raw = payload})
            = Cardinality({p \in written : PayloadOf(p) = payload})
     /\ (\A p \in Procs : pc[p] = "done" /\ persisted[p] = "ok") => Len(log) = NProcs

\* C8 witness: every capture has run to its end with its record written, and
\* the record of the second request stands before that of the first.
C8_Witness ==
  /\ \A p \in Procs : pc[p] = "done" /\ persisted[p] = "ok"
  /\ Len(log) = NProcs
  /\ PayloadOf(1) # PayloadOf(2)
  /\ log[1].raw = PayloadOf(2) /\ log[2].raw = PayloadOf(1)

\* C9: the log is append-only: every step of every operation leaves the
\* lines already written in place and unchanged.
C9_AppendOnly ==
  [][Len(log') >= Len(log) /\ SubSeq(log', 1, Len(log)) = log]_vars

\* C9 witness: two records stand in the log, a third capture is being
\* appended, and a create-order request has ended in the meantime.
C9_Witness ==
  /\ Len(log) >= 2
  /\ log[1] # log[2]
  /\ \E p \in Procs : op[p] = "create" /\ pc[p] = "done"
  /\ \E p \in Procs : op[p] = "capture" /\ pc[p] = "resume" /\ persisted[p] = "ok"

\* the requests whose order-create or capture call the gateway has answered
\* with a status that is not 2xx
Rejected ==
  {p \in Procs : op[p] \in {"create", "capture"} /\ Len(replies[p]) = 2
                   /\ ~replies[p][2].failed /\ ~IsOk(replies[p][2])}

\* C11: when the gateway answers an order-create or capture call with a
\* non-2xx status, the request fails with an error that carries the upstream
\* status and the parsed upstream body ({} for an empty or non-JSON body),
\* and no success result is returned.
C11_GatewayErrorCarriesStatusAndBody ==
  \A p \in Rejected :
    /\ Failed(p)
    /\ "paypal" \in DOMAIN res[p][1].body
    /\ res[p][1].body.paypal = ParseBody(replies[p][2])
    /\ res[p][1].status = replies[p][2].status

\* the create-order requests that have been answered
CreateResponses == {p \in Procs : op[p] = "create" /\ pc[p] = "done"}

\* C12: every response of create-order is either 201 with a body whose id is
\* the order id the gateway issued for the request, or a 4xx/5xx status with
\* a body carrying a message; no 201 is sent without an id.
C12_CreatedHasId ==
  \A p \in CreateResponses :
    \/ /\ res[p][1].status = 201
       /\ "id" \in DOMAIN res[p][1].body
       /\ Len(replies[p]) = 2
       /\ Get(replies[p][2].body, "id") = Some(res[p][1].body.id)
    \/ /\ res[p][1].status \in 400..599
       /\ "message" \in DOMAIN res[p][1].body

\* C15: every item normalize accepts is charged a strictly positive amount:
\* each unit_amount.value, after rounding to cents, is greater than 0.00,
\* and so is the order total sent to the gateway.
C15_PositiveAmounts ==
  \A p \in CreateRequests :
    /\ \A out \in Normalized(p) : \A i \in 1..Len(out) :
         LET value == ParseNumber(out[i].unit_amount.value)
         IN value.k = "big" \/ (value.k = "fin" /\ value.m > 0)
    /\ \A body \in OrderCalls(p) :
         LET total == ParseNumber(body.purchase_units[1].amount.value)
         IN total.k = "big" \/ (total.k = "fin" /\ total.m > 0)

\* C14: in capture-order a record is written only after the gateway capture
\* call has succeeded, and the write attempt has ended before the response
\* is sent: a capture whose authentication or gateway call failed has
\* written nothing and is answered with an error, and no response exists
\* while the directory creation or the append is still pending.
C14_RecordAfterCaptureBeforeResponse ==
  /\ Len(log) = Cardinality({p \in Procs : persisted[p] = "ok"})
  /\ \A p \in Procs :
       op[p] = "capture" =>
         /\ persisted[p] # "none" => p \in Captured
         /\ (pc[p] = "done" /\ p \notin Captured) =>
              Failed(p) /\ persisted[p] = "none"
         /\ IsSome(res[p]) =>
              /\ pc[p] = "done"
              /\ res[p][1].status = 200 => persisted[p] # "none"

\* C14 witness: one capture failed at the gateway and wrote nothing, while
\* another was recorded and then answered.
C14_Witness ==
  \E p, q \in Procs :
    /\ op[p] = "capture" /\ Len(replies[p]) = 2 /\ replies[p][2].status = 422
    /\ Failed(p) /\ persisted[p] = "none"
    /\ op[q] = "capture" /\ pc[q] = "done" /\ res[q][1].status = 200
    /\ persisted[q] = "ok"
    /\ Len(log) = 1

\* C13: after a capture answered with 200 the page shows the payment as
\* confirmed only when the status the gateway declares for the capture is
\* COMPLETED (a DECLINED or PENDING capture is not shown as a generic
\* success), and the service hands the payload on with its status unaltered.
C13_UiShowsGatewayStatus ==
  \A p \in Procs :
    (op[p] = "capture" /\ pc[p] = "done" /\ res[p][1].status = 200) =>
      /\ res[p][1].body = PayloadOf(p)
      /\ LET declared == FirstCaptureField(res[p][1].body, "status")
         IN (IsSome(declared) /\ declared # Some("COMPLETED")) =>
              ~(ui[p].type = "success" /\ ui[p].message = "Payment confirmed")

====
